---- MODULE Spec2Model ----
(***************************************************************************)
(* A model of src/app.py: the /process_hume handler.  One invocation of    *)
(* process_hume is a sequential process: it polls the provider in a        *)
(* bounded loop, extracts the per-frame predictions from the payload and   *)
(* reduces them to three scores and a top emotion.                         *)
(*                                                                         *)
(* A score of the payload is written in hundredths (80 stands for the JSON  *)
(* number 0.80).  The handler computes with Python floats, IEEE binary64:  *)
(* a float is modelled exactly, as the number of units of 2^-64 it is      *)
(* worth, written in three limbs of 24 bits, least significant first.      *)
(* Every float operation rounds to 53 significant bits, ties to even, as   *)
(* the hardware does.  The three scores of the response, rounded to two    *)
(* decimals, are integers in hundredths again.                             *)
(***************************************************************************)
EXTENDS Integers, Sequences, FiniteSets, TLC

VARIABLES
    pc,               \* position of the handler in process_hume
    job_id,           \* request.args.get("job_id")
    i,                \* loop variable of `for i in range(max_retries)`
    response,         \* what the last requests.get produced
    results,          \* the local `results`
    nreq,             \* number of requests.get calls made so far
    nsleep,           \* number of time.sleep(10) calls made so far
    terminal_seen,    \* some response so far was one the claims call terminal
    predictions,      \* the local `predictions`
    k,                \* number of frames of `predictions` already iterated
    emotion_scores,   \* dict label -> count, as a sequence in insertion order
    top_emotions,     \* list of per-frame dominant labels
    confidence_sum,   \* a float
    nervousness_sum,  \* a float
    frame_count,      \* the local `frame_count`
    status,           \* HTTP status of the handler's response, 0 while running
    error,            \* the "error" message of an error response, "" if none
    exc,              \* the exception that escaped the handler, "" if none
    result            \* the `result` dict of a 200 response

vars == <<pc, job_id, i, response, results, nreq, nsleep, terminal_seen,
          predictions, k, emotion_scores, top_emotions, confidence_sum,
          nervousness_sum, frame_count, status, error, exc, result>>

pollVars == <<i, response, results, nreq, nsleep, terminal_seen>>
aggVars == <<predictions, k, emotion_scores, top_emotions, confidence_sum,
             nervousness_sum, frame_count>>

(***************************************************************************)
(* Bounds of the model.                                                    *)
(***************************************************************************)
MaxFrames == 4
MaxPollFrames == 2

(***************************************************************************)
(* Program constants.                                                      *)
(***************************************************************************)
max_retries_short == 18 - 1
max_retries_long == 18 + 1
max_retries == 18

confidence_emotions == {"calm", "focused", "content"}
nervousness_emotions == {"nervous", "worried", "tense"}

(***************************************************************************)
(* Inputs: the job_id query parameter.                                     *)
(***************************************************************************)
JobIds ==
    { [present |-> FALSE, value |-> ""],
      [present |-> TRUE,  value |-> ""],
      [present |-> TRUE,  value |-> "job-1"] }

\* Python truthiness of request.args.get("job_id"): None and "" are falsy.
JobIdFalsy(j) == (~j.present) \/ j.value = ""

(***************************************************************************)
(* Inputs: frames of a provider payload.  An emotion entry is a JSON       *)
(* object that may lack "name" or "score"; a frame may be a JSON object    *)
(* with or without the "emotions" key, or not an object at all.            *)
(***************************************************************************)
Emo(n, s) == [name |-> n, score |-> s, keys |-> {"name", "score"}]
EmoNoScore(n) == [name |-> n, score |-> 0, keys |-> {"name"}]
EmoNoName(s) == [name |-> "", score |-> s, keys |-> {"score"}]

Frame(es) == [isobj |-> TRUE, haskey |-> TRUE, emotions |-> es]
FrameNoKey == [isobj |-> TRUE, haskey |-> FALSE, emotions |-> <<>>]
FrameScalar == [isobj |-> FALSE, haskey |-> FALSE, emotions |-> <<>>]

Frames ==
    { Frame(<<Emo("calm", 80)>>),
      Frame(<<Emo("nervous", 90)>>),
      Frame(<<Emo("joy", 50), Emo("Calm", 50)>>),
      Frame(<<>>),
      FrameNoKey,
      FrameScalar,
      Frame(<<Emo("nervous", 30), Emo("calm", 70), Emo("focused", 70)>>),
      Frame(<<Emo("joy", 60), EmoNoScore("calm")>>),
      Frame(<<Emo("joy", 60), EmoNoName(30)>>) }

RECURSIVE SeqsUpTo(_, _)
SeqsUpTo(S, n) ==
    IF n = 0 THEN {<<>>}
    ELSE LET shorter == SeqsUpTo(S, n - 1)
         IN  shorter \cup {Append(s, x) : s \in {t \in shorter : Len(t) = n - 1}, x \in S}

\* the frame lists the aggregation is started on
FrameSeqs == SeqsUpTo(Frames, MaxFrames)

\* the frame lists a provider response of the polling loop may carry
PollFrameSeqs == SeqsUpTo(Frames, MaxPollFrames)

(***************************************************************************)
(* Inputs: provider responses.  A payload is described by the shape the    *)
(* handler tests for, and the frames it carries when it is well nested.    *)
(***************************************************************************)
Payload(shape, frames) == [shape |-> shape, frames |-> frames]

NoPayload == Payload("none", <<>>)
NoneValue == Payload("None", <<>>)

BadPayloads ==
    { Payload("not_json", <<>>),          \* body is not JSON
      Payload("object", <<>>),            \* {"status": "IN_PROGRESS"}
      Payload("empty_list", <<>>),        \* []
      Payload("first_scalar", <<>>),      \* [5]
      Payload("first_no_results", <<>>),  \* [{"source": {}}]
      Payload("first_is_string", <<>>),   \* ["results pending"]
      Payload("bad_nesting", <<>>),       \* [{"results": {"predictions": []}}]
      Payload("preds_not_list", <<>>) }   \* ...["predictions"] is {"a": 1}

FramePayloads == { Payload("frames", fs) : fs \in PollFrameSeqs }

StatusCodes == {202, 401, 403, 404, 429, 500, 502, 503}

HttpResponse(code, p) == [kind |-> "http", code |-> code, payload |-> p]
TransportFailure == [kind |-> "exception", code |-> 0, payload |-> NoPayload]
NoResponse == [kind |-> "none", code |-> 0, payload |-> NoPayload]

Responses ==
    {TransportFailure}
      \cup { HttpResponse(c, NoPayload) : c \in StatusCodes }
      \cup { HttpResponse(200, p) : p \in BadPayloads \cup FramePayloads }

(***************************************************************************)
(* Python floats.  A float x >= 0 is <<x1, x2, x3>>, worth                 *)
(* (x1 + x2 * 2^24 + x3 * 2^48) * 2^-64.  The model only meets 0 and       *)
(* floats between 2^-11 and 2^7, all of which are whole numbers of units.  *)
(***************************************************************************)
LimbBase == 4096 * 4096

RECURSIVE Pow2(_)
Pow2(n) == IF n = 0 THEN 1 ELSE 2 * Pow2(n - 1)

RECURSIVE BitLen(_)
BitLen(n) == IF n = 0 THEN 0 ELSE 1 + BitLen(n \div 2)

\* the counts of units, three limbs each; an operator below that uses an
\* argument several times takes it as the argument of a function on these
\* sets, so that the argument is evaluated once
Limbs == Nat \X Nat \X Nat

\* the number of significant bits of the float's count of units
FloatBits(x) ==
    IF x[3] > 0 THEN 48 + BitLen(x[3])
    ELSE IF x[2] > 0 THEN 24 + BitLen(x[2])
    ELSE BitLen(x[1])

\* the int 0 and the float 0.0
FloatZero == <<0, 0, 0>>

\* float(n) for a small int n >= 0
FloatOfInt(n) == <<0, 0, n * 65536>>

\* the sum of two counts of units, not rounded
ExactAdd(x, y) ==
    [a \in Limbs, b \in Limbs |->
        LET s1 == a[1] + b[1]
            s2 == a[2] + b[2] + (s1 \div LimbBase)
            s3 == a[3] + b[3] + (s2 \div LimbBase)
        IN  <<s1 % LimbBase, s2 % LimbBase, s3>>][x, y]

\* the double nearest to x + num/den units (0 <= num < den), a tie going to
\* the even mantissa
RoundToDouble(x, num, den) ==
    [a \in Limbs |->
        IF FloatBits(a) < 53 THEN a
        ELSE [p \in Nat |->
                LET low == a[1] % p
                    down == <<a[1] - low, a[2], a[3]>>
                    up == ExactAdd(down, <<p, 0, 0>>)
                    twice == 2 * (low * den + num)
                    whole == p * den
                IN  IF twice < whole THEN down
                    ELSE IF twice > whole THEN up
                    ELSE IF (a[1] \div p) % 2 = 0 THEN down ELSE up
             ][Pow2(FloatBits(a) - 53)]][x]

\* x + y on floats
FloatAdd(x, y) == RoundToDouble(ExactAdd(x, y), 0, 1)

\* x / n on floats, for an int 1 <= n <= 100
FloatDiv(x, n) ==
    [a \in Limbs |->
        LET t3 == a[3]
            t2 == (t3 % n) * LimbBase + a[2]
            t1 == (t2 % n) * LimbBase + a[1]
        IN  RoundToDouble(<<t1 \div n, t2 \div n, t3 \div n>>, t1 % n, n)][x]

\* response.json(): the float a JSON number of s hundredths parses to, the
\* double nearest to s / 100
FloatOfScore(s) == FloatDiv(FloatOfInt(s), 100)

\* round(x, 2), in hundredths: the decimal nearest to the exact value of the
\* float, a tie going to the even digit
Round2(x) ==
    [a \in Limbs |->
        LET m1 == 100 * a[1]
            m2 == 100 * a[2] + (m1 \div LimbBase)
            m3 == 100 * a[3] + (m2 \div LimbBase)
            q == m3 \div 65536
            f3 == m3 % 65536
            rest == (m2 % LimbBase) + (m1 % LimbBase)
        IN  IF f3 < 32768 THEN q
            ELSE IF f3 > 32768 \/ rest > 0 THEN q + 1
            ELSE IF q % 2 = 0 THEN q ELSE q + 1][x]

(***************************************************************************)
(* What the handler can tell about a payload (lines 61-64, 85, 91-94).     *)
(***************************************************************************)
\* response.json() succeeds.
JsonParses(p) == p.shape # "not_json"

\* isinstance(results, list)
IsList(p) == p.shape \notin {"not_json", "object", "none", "None"}

\* len(results) > 0
NonEmpty(p) == p.shape # "empty_list"

\* `"results" in results[0]` is defined for a dict, a list or a string and
\* raises TypeError for a number, a boolean or null.
FirstIsContainer(p) == p.shape # "first_scalar"

\* "results" in results[0]: a key of the dict, or a substring of the string.
ResultsInFirst(p) ==
    p.shape \in {"first_is_string", "bad_nesting", "preds_not_list", "frames"}

\* `not results` at line 85.
ResultsFalsy_never(p) == FALSE
ResultsFalsy(p) == p.shape \in {"None", "empty_list"}

\* results[0]["results"]["predictions"][0]["models"]["face"]
\*   ["grouped_predictions"][0]["predictions"] raises nothing.
NestingOK(p) == p.shape \in {"preds_not_list", "frames"}

\* isinstance(predictions, list)
PredictionsIsList(p) == p.shape = "frames"

(***************************************************************************)
(* The ways a step of the handler ends.                                    *)
(***************************************************************************)
NoResult ==
    [top_emotion |-> "", engagement_score |-> 0, engagement_level |-> "",
     nervousness_score |-> 0, nervousness_level |-> "",
     confidence_score |-> 0, confidence_level |-> ""]

\* return jsonify({"error": msg}), code
ReturnError(code, msg) ==
    /\ pc' = "done"
    /\ status' = code
    /\ error' = msg
    /\ UNCHANGED <<exc, result>>

\* an exception no except clause of process_hume catches
Raise(e) ==
    /\ pc' = "done"
    /\ exc' = e
    /\ UNCHANGED <<status, error, result>>

\* control moves on inside the handler
Goto(label) ==
    /\ pc' = label
    /\ UNCHANGED <<status, error, exc, result>>

(***************************************************************************)
(* The branches of the polling loop, lines 48-83.                          *)
(***************************************************************************)
\* lines 52-54
OnTransportFailure_retry == Goto("sleep")
OnTransportFailure == ReturnError(500, "Failed to connect to Hume API")

\* lines 65-66: break
OnExpectedFormat_retry == Goto("sleep")
OnExpectedFormat == Goto("after_loop")

\* lines 67-69
OnUnexpectedFormat_retry == Goto("sleep")
OnUnexpectedFormat ==
    ReturnError(500, "Unexpected API response format or no results found")

\* lines 70-72
OnJsonDecodeError == ReturnError(500, "Failed to parse Hume API response")

\* lines 73-75
On404 == ReturnError(404, "Invalid job_id or results not ready")

\* lines 76-78
On401_retry == Goto("sleep")
On401 == ReturnError(401, "Unauthorized - Check your API Key")

\* line 79: the test of the last elif
IsInternalError_5xx(code) == code \in 500..599
IsInternalError_any_error(code) == code >= 400
IsInternalError(code) == code = 500

\* lines 80-81
OnInternalError == ReturnError(500, "Hume API internal error")

\* a response is terminal when the loop does not go on to sleep after it
TerminalResponse(r) ==
    \/ r.kind = "exception"
    \/ r.kind = "http" /\ r.code \in {200, 401, 404, 500}

(***************************************************************************)
(* Init: the handler is entered with some job_id.                          *)
(***************************************************************************)
Init ==
    /\ pc = "entry"
    /\ job_id \in JobIds
    /\ i = 0
    /\ response = NoResponse
    /\ results = NoneValue
    /\ nreq = 0
    /\ nsleep = 0
    /\ terminal_seen = FALSE
    /\ predictions = <<>>
    /\ k = 0
    /\ emotion_scores = <<>>
    /\ top_emotions = <<>>
    /\ confidence_sum = FloatZero
    /\ nervousness_sum = FloatZero
    /\ frame_count = 0
    /\ status = 0
    /\ error = ""
    /\ exc = ""
    /\ result = NoResult

\* lines 33-46
Entry ==
    /\ pc = "entry"
    /\ IF JobIdFalsy(job_id)
         THEN ReturnError(400, "Job ID is required")
         ELSE Goto("poll")
    /\ UNCHANGED <<job_id, pollVars, aggVars>>

\* lines 48-57: one requests.get of the loop, for i in range(max_retries)
Request(r) ==
    /\ pc = "poll"
    /\ i < max_retries
    /\ nreq' = nreq + 1
    /\ response' = r
    /\ terminal_seen' = (terminal_seen \/ TerminalResponse(r))
    /\ IF r.kind = "exception"
         THEN OnTransportFailure
         ELSE Goto("classify")
    /\ UNCHANGED <<job_id, i, results, nsleep, aggVars>>

\* lines 59-81: the if/elif chain on response.status_code
Classify ==
    /\ pc = "classify"
    /\ LET p == response.payload
           code == response.code
       IN  IF code = 200
             THEN IF ~JsonParses(p)
                    THEN OnJsonDecodeError /\ results' = results
                    ELSE /\ results' = p
                         /\ IF ~(IsList(p) /\ NonEmpty(p))
                              THEN OnUnexpectedFormat
                              ELSE IF ~FirstIsContainer(p)
                                     THEN Raise("TypeError")
                                     ELSE IF ResultsInFirst(p)
                                            THEN OnExpectedFormat
                                            ELSE OnUnexpectedFormat
             ELSE /\ results' = results
                  /\ IF code = 404 THEN On404
                     ELSE IF code = 401 THEN On401
                     ELSE IF IsInternalError(code) THEN OnInternalError
                     ELSE Goto("sleep")
    /\ UNCHANGED <<job_id, i, response, nreq, nsleep, terminal_seen, aggVars>>

\* line 83, and the loop's step to the next i
Sleep ==
    /\ pc = "sleep"
    /\ nsleep' = nsleep + 1
    /\ i' = i + 1
    /\ Goto("poll")
    /\ UNCHANGED <<job_id, response, results, nreq, terminal_seen, aggVars>>

\* line 48: range(max_retries) is exhausted
LoopExhausted ==
    /\ pc = "poll"
    /\ i >= max_retries
    /\ Goto("after_loop")
    /\ UNCHANGED <<job_id, pollVars, aggVars>>

\* lines 85-87
AfterLoop ==
    /\ pc = "after_loop"
    /\ IF ResultsFalsy(results)
         THEN ReturnError(500, "Failed to retrieve data from Hume AI")
         ELSE Goto("extract")
    /\ UNCHANGED <<job_id, pollVars, aggVars>>

(***************************************************************************)
(* Helpers of the aggregation, lines 102-154.                              *)
(***************************************************************************)
\* str.lower() on the labels of the model
Lower(n) ==
    IF n = "Calm" THEN "calm"
    ELSE IF n = "Nervous" THEN "nervous"
    ELSE n

\* sum(scores) of lines 127 and 132: from the int 0, left to right (the
\* compensated sum of Python 3.12 gives the same float for up to two terms)
RECURSIVE SumScores(_)
SumScores(es) ==
    IF es = <<>> THEN FloatZero
    ELSE FloatAdd(SumScores(SubSeq(es, 1, Len(es) - 1)),
                  FloatOfScore(es[Len(es)].score))

\* line 113: frame.get("emotions", [])
GetEmotions(frame) == IF frame.haskey THEN frame.emotions ELSE <<>>

\* line 118: max(emotions, key=score) returns the first entry with the
\* maximal score
TopEmotionIndex_last(emotions) ==
    CHOOSE m \in 1..Len(emotions) :
        /\ \A j \in 1..Len(emotions) : emotions[j].score <= emotions[m].score
        /\ \A j \in (m + 1)..Len(emotions) : emotions[j].score < emotions[m].score
TopEmotionIndex(emotions) ==
    CHOOSE m \in 1..Len(emotions) :
        /\ \A j \in 1..Len(emotions) : emotions[j].score <= emotions[m].score
        /\ \A j \in 1..(m - 1) : emotions[j].score < emotions[m].score

\* dict.get(name, 0) on the insertion-ordered dict
DictGet(d, name) ==
    IF \E j \in 1..Len(d) : d[j].name = name
      THEN d[CHOOSE j \in 1..Len(d) : d[j].name = name].count
      ELSE 0

\* lines 120-122: emotion_scores[name] = emotion_scores.get(name, 0) + 1;
\* a new key goes to the end, an old key keeps its place
DictIncrement(d, name) ==
    IF \E j \in 1..Len(d) : d[j].name = name
      THEN [j \in 1..Len(d) |->
              IF d[j].name = name
                THEN [name |-> name, count |-> d[j].count + 1]
                ELSE d[j]]
      ELSE Append(d, [name |-> name, count |-> 1])

\* lines 125-127 and 130-132: what the frame adds to the running sum, the
\* mean of the scores whose lower-cased label is in the group; nothing is
\* added when no label matches
GroupMean(emotions, group) ==
    LET matching == SelectSeq(emotions, LAMBDA e : Lower(e.name) \in group)
    IN  IF matching = <<>> THEN FloatZero
        ELSE FloatDiv(SumScores(matching), Len(matching))

\* line 109
InitialFrameCount_valid(preds) ==
    Cardinality({j \in 1..Len(preds) :
                    preds[j].isobj /\ GetEmotions(preds[j]) # <<>>})
InitialFrameCount(preds) == Len(preds)

\* lines 112-132 as a function of the frame list: the running sum of one
\* group after the loop has visited the frames in list order
RECURSIVE LoopSum(_, _)
LoopSum(fs, group) ==
    IF fs = <<>> THEN FloatZero
    ELSE LET sum == LoopSum(SubSeq(fs, 1, Len(fs) - 1), group)
             emotions == GetEmotions(fs[Len(fs)])
         IN  IF emotions = <<>> THEN sum
             ELSE FloatAdd(sum, GroupMean(emotions, group))

\* lines 112-122 as a function of the frame list: the dict of dominant-label
\* counts after the loop
RECURSIVE LoopCounts(_)
LoopCounts(fs) ==
    IF fs = <<>> THEN <<>>
    ELSE LET d == LoopCounts(SubSeq(fs, 1, Len(fs) - 1))
             emotions == GetEmotions(fs[Len(fs)])
         IN  IF emotions = <<>> THEN d
             ELSE DictIncrement(d, emotions[TopEmotionIndex(emotions)].name)

\* lines 143-144: round(sum / frame_count, 2) if frame_count > 0 else 0
ScoreOf(fs, group) ==
    IF InitialFrameCount(fs) > 0
      THEN Round2(FloatDiv(LoopSum(fs, group), InitialFrameCount(fs)))
      ELSE 0

\* line 135: max(emotion_scores, key=emotion_scores.get, default="Neutral")
\* returns the first key, in insertion order, with the maximal count
FinalTopEmotion_last(d) ==
    IF d = <<>> THEN "Neutral"
    ELSE d[CHOOSE m \in 1..Len(d) :
              /\ \A j \in 1..Len(d) : d[j].count <= d[m].count
              /\ \A j \in (m + 1)..Len(d) : d[j].count < d[m].count].name
FinalTopEmotion(d) ==
    IF d = <<>> THEN "Neutral"
    ELSE d[CHOOSE m \in 1..Len(d) :
              /\ \A j \in 1..Len(d) : d[j].count <= d[m].count
              /\ \A j \in 1..(m - 1) : d[j].count < d[m].count].name

\* line 139
Switches_distinct(tops) ==
    IF tops = <<>> THEN 0
    ELSE Cardinality({tops[j] : j \in 1..Len(tops)}) - 1
Switches(tops) ==
    Cardinality({j \in 2..Len(tops) : tops[j] # tops[j - 1]})

\* lines 21-27, score in hundredths
get_level_strict(score) ==
    IF score > 70 THEN "High"
    ELSE IF score > 40 THEN "Moderate"
    ELSE "Low"
get_level(score) ==
    IF score >= 70 THEN "High"
    ELSE IF score >= 40 THEN "Moderate"
    ELSE "Low"

\* lines 148-154: count / frames >= 0.7, >= 0.4
EmotionLevel(count, frames) ==
    IF 10 * count >= 7 * frames THEN "Excellent"
    ELSE IF 10 * count >= 4 * frames THEN "Good"
    ELSE "Average"

\* line 158: f"{final_top_emotion} ({emotion_level})"
FormatTopEmotion(label, level) == label \o " (" \o level \o ")"

(***************************************************************************)
(* The aggregation, lines 90-168.                                          *)
(***************************************************************************)
\* lines 90-109
Extract ==
    /\ pc = "extract"
    /\ IF ~NestingOK(results)
         THEN /\ ReturnError(500, "Invalid data format from Hume API")
              /\ UNCHANGED aggVars
         ELSE IF ~PredictionsIsList(results) \/ results.frames = <<>>
                THEN /\ ReturnError(500, "No predictions found in Hume API results")
                     /\ UNCHANGED aggVars
                ELSE /\ predictions' = results.frames
                     /\ emotion_scores' = <<>>
                     /\ top_emotions' = <<>>
                     /\ confidence_sum' = FloatZero
                     /\ nervousness_sum' = FloatZero
                     /\ frame_count' = InitialFrameCount(results.frames)
                     /\ k' = 0
                     /\ Goto("frames")
    /\ UNCHANGED <<job_id, pollVars>>

\* lines 112-132: one iteration of `for frame in predictions`
FrameStep ==
    /\ pc = "frames"
    /\ k < Len(predictions)
    /\ k' = k + 1
    /\ LET frame == predictions[k + 1]
           emotions == GetEmotions(frame)
           top == emotions[TopEmotionIndex(emotions)]
       IN  IF ~frame.isobj
             THEN /\ Raise("AttributeError")
                  /\ UNCHANGED <<emotion_scores, top_emotions, confidence_sum,
                                 nervousness_sum>>
           ELSE IF emotions = <<>>
             THEN /\ Goto("frames")
                  /\ UNCHANGED <<emotion_scores, top_emotions, confidence_sum,
                                 nervousness_sum>>
           ELSE IF \/ \E j \in 1..Len(emotions) : "score" \notin emotions[j].keys
                   \/ "name" \notin top.keys
             THEN /\ Raise("KeyError")
                  /\ UNCHANGED <<emotion_scores, top_emotions, confidence_sum,
                                 nervousness_sum>>
           ELSE /\ top_emotions' = Append(top_emotions, top.name)
                /\ emotion_scores' = DictIncrement(emotion_scores, top.name)
                /\ IF \E j \in 1..Len(emotions) : "name" \notin emotions[j].keys
                     THEN /\ Raise("KeyError")
                          /\ UNCHANGED <<confidence_sum, nervousness_sum>>
                     ELSE /\ confidence_sum' = FloatAdd(confidence_sum,
                                 GroupMean(emotions, confidence_emotions))
                          /\ nervousness_sum' = FloatAdd(nervousness_sum,
                                 GroupMean(emotions, nervousness_emotions))
                          /\ Goto("frames")
    /\ UNCHANGED <<job_id, pollVars, predictions, frame_count>>

\* lines 135-168
Finalize ==
    /\ pc = "frames"
    /\ k = Len(predictions)
    /\ LET final_top_emotion == FinalTopEmotion(emotion_scores)
           top_emotion_count == DictGet(emotion_scores, final_top_emotion)
           switches == Switches(top_emotions)
           engagement_score ==
               IF Len(top_emotions) > 1
                 THEN Round2(FloatDiv(FloatOfInt(switches),
                                      Len(top_emotions) - 1))
                 ELSE 0
           confidence_score ==
               IF frame_count > 0
                 THEN Round2(FloatDiv(confidence_sum, frame_count)) ELSE 0
           nervousness_score ==
               IF frame_count > 0
                 THEN Round2(FloatDiv(nervousness_sum, frame_count)) ELSE 0
       IN  IF frame_count = 0
             THEN Raise("ZeroDivisionError")
             ELSE /\ pc' = "done"
                  /\ status' = 200
                  /\ result' =
                       [top_emotion |->
                            FormatTopEmotion(final_top_emotion,
                                EmotionLevel(top_emotion_count, frame_count)),
                        engagement_score |-> engagement_score,
                        engagement_level |-> get_level(engagement_score),
                        nervousness_score |-> nervousness_score,
                        nervousness_level |-> get_level(nervousness_score),
                        confidence_score |-> confidence_score,
                        confidence_level |-> get_level(confidence_score)]
                  /\ UNCHANGED <<error, exc>>
    /\ UNCHANGED <<job_id, pollVars, aggVars>>

Next ==
    \/ Entry
    \/ \E r \in Responses : Request(r)
    \/ Classify
    \/ Sleep
    \/ LoopExhausted
    \/ AfterLoop
    \/ Extract
    \/ FrameStep
    \/ Finalize

Spec == Init /\ [][Next]_vars

\* The handler is one sequential function: requests.get returns or raises
\* within its timeout (line 51), time.sleep(10) returns (line 83) and every
\* other step is straight-line code, so a step that can be taken is taken.
FairSpec == Spec /\ WF_vars(Next)

(***************************************************************************)
(* The aggregation alone: the first request of an invocation was answered  *)
(* with a complete envelope carrying some frame list, the loop was left by *)
(* the break of line 66 and line 85 let the handler through.               *)
(***************************************************************************)
AggInit ==
    /\ pc = "extract"
    /\ job_id = [present |-> TRUE, value |-> "job-1"]
    /\ i = 0
    /\ \E fs \in FrameSeqs :
          /\ response = HttpResponse(200, Payload("frames", fs))
          /\ results = Payload("frames", fs)
    /\ nreq = 1
    /\ nsleep = 0
    /\ terminal_seen = TRUE
    /\ predictions = <<>>
    /\ k = 0
    /\ emotion_scores = <<>>
    /\ top_emotions = <<>>
    /\ confidence_sum = FloatZero
    /\ nervousness_sum = FloatZero
    /\ frame_count = 0
    /\ status = 0
    /\ error = ""
    /\ exc = ""
    /\ result = NoResult

AggNext ==
    \/ Extract
    \/ FrameStep
    \/ Finalize

AggSpec == AggInit /\ [][AggNext]_vars

(***************************************************************************)
(* Vocabulary of the properties.                                           *)
(***************************************************************************)
\* a complete result envelope: a non-empty list whose first element
\* contains "results"
CompleteShapes == {"first_is_string", "bad_nesting", "preds_not_list", "frames"}

\* the last response was an HTTP response with this status and the handler
\* has acted on it
Acted(code) ==
    /\ response.kind = "http"
    /\ response.code = code
    /\ pc # "classify"

\* the invocation went no further than the attempt of the last response:
\* no sleep after it and no request after it
EndedAtThisAttempt ==
    /\ pc = "done"
    /\ nreq = i + 1
    /\ nsleep = i

\* the handler returned the error response {error: msg} with this status
ErrorResponse(code, msg) ==
    /\ pc = "done"
    /\ status = code
    /\ error = msg
    /\ exc = ""
    /\ result = NoResult

\* the response was treated as not ready: a sleep follows it, and the
\* invocation ends only with the retries exhausted
TreatedAsNotReady ==
    /\ pc \in {"sleep", "poll", "after_loop", "done"}
    /\ nsleep = (IF pc = "sleep" THEN nreq - 1 ELSE nreq)
    /\ pc = "done" =>
         /\ nreq = 18
         /\ ErrorResponse(500, "Failed to retrieve data from Hume AI")

(***************************************************************************)
(* C1, as stated: an HTTP 200 response whose payload is not a complete     *)
(* result envelope does not end the request; the poller sleeps after it.   *)
(***************************************************************************)
C1_IncompleteIsRetried ==
    (Acted(200) /\ response.payload.shape \notin CompleteShapes)
        => TreatedAsNotReady

(***************************************************************************)
(* C1, amended: an HTTP 200 response whose payload is not a complete       *)
(* result envelope ends the invocation at that attempt, without a sleep    *)
(* and without another request: with the 500 parse error for a body that   *)
(* is not JSON, with the 500 unexpected-format error for a non-list, an    *)
(* empty list or a first element that is a container without "results",    *)
(* and with an uncaught TypeError for a first element that is no container.*)
(***************************************************************************)
C1_IncompleteEndsRequest ==
    (Acted(200) /\ response.payload.shape \notin CompleteShapes)
        => /\ EndedAtThisAttempt
           /\ result = NoResult
           /\ LET shape == response.payload.shape
              IN  \/ /\ shape = "not_json"
                     /\ ErrorResponse(500, "Failed to parse Hume API response")
                  \/ /\ shape \in {"object", "empty_list", "first_no_results"}
                     /\ ErrorResponse(500,
                          "Unexpected API response format or no results found")
                  \/ /\ shape = "first_scalar"
                     /\ exc = "TypeError"
                     /\ status = 0

C1_Witness ==
    /\ Acted(200)
    /\ response.payload.shape = "first_no_results"
    /\ pc = "done"
    /\ status = 500
    /\ nreq = 3
    /\ nsleep = 2

(***************************************************************************)
(* C2, as stated: every 5xx status ends the invocation at that attempt     *)
(* with the provider error, status 500.                                    *)
(***************************************************************************)
C2_Every5xxIsTerminal ==
    \A code \in 500..599 :
        Acted(code) =>
            /\ EndedAtThisAttempt
            /\ ErrorResponse(500, "Hume API internal error")

(***************************************************************************)
(* C2, amended: status 500 exactly ends the invocation at that attempt     *)
(* with the provider error, without a sleep or another request; every      *)
(* other 5xx status (502, 503) is treated as not ready.                    *)
(***************************************************************************)
C2_Only500IsTerminal ==
    /\ Acted(500) =>
         /\ EndedAtThisAttempt
         /\ ErrorResponse(500, "Hume API internal error")
    /\ \A code \in 501..599 : Acted(code) => TreatedAsNotReady

C2_Witness ==
    /\ Acted(500)
    /\ ErrorResponse(500, "Hume API internal error")
    /\ nreq = 4
    /\ nsleep = 3

(***************************************************************************)
(* C3: an invocation with a non-empty job_id none of whose responses was   *)
(* terminal ends only after exactly 18 requests, with the retries-exhausted*)
(* error, status 500, and never reaches the aggregation or metrics.        *)
(***************************************************************************)
C3_NoTerminalResponseTimesOut ==
    (~JobIdFalsy(job_id) /\ ~terminal_seen)
        => /\ pc \in {"entry", "poll", "classify", "sleep", "after_loop", "done"}
           /\ result = NoResult
           /\ status # 200
           /\ pc = "after_loop" => nreq = 18
           /\ pc = "done" =>
                /\ nreq = 18
                /\ ErrorResponse(500, "Failed to retrieve data from Hume AI")

C3_Witness ==
    /\ ~JobIdFalsy(job_id)
    /\ ~terminal_seen
    /\ pc = "done"
    /\ nreq = 18
    /\ status = 500

(***************************************************************************)
(* C4: after an HTTP 200 response with a complete result envelope, at any  *)
(* attempt, the loop is left: no sleep and no request follows, and that    *)
(* payload is the one the aggregation works on.                            *)
(***************************************************************************)
C4_CompleteStopsPolling ==
    (Acted(200) /\ response.payload.shape \in CompleteShapes)
        => /\ pc \in {"after_loop", "extract", "frames", "done"}
           /\ nreq = i + 1
           /\ nsleep = i
           /\ results = response.payload
           /\ (pc = "frames" \/ status = 200) =>
                predictions = response.payload.frames

C4_Witness ==
    /\ Acted(200)
    /\ response.payload.shape = "frames"
    /\ pc = "done"
    /\ status = 200
    /\ nreq = 18
    /\ nsleep = 17

(***************************************************************************)
(* C5: a transport failure of the request, at any attempt, ends the        *)
(* invocation at that attempt with the connection error, status 500: no    *)
(* sleep, no further request, no metrics.                                  *)
(***************************************************************************)
C5_TransportFailureIsTerminal ==
    response.kind = "exception"
        => /\ EndedAtThisAttempt
           /\ ErrorResponse(500, "Failed to connect to Hume API")

C5_Witness ==
    /\ response.kind = "exception"
    /\ pc = "done"
    /\ status = 500
    /\ nreq = 3
    /\ nsleep = 2

(***************************************************************************)
(* C6: HTTP 404, at any attempt, ends the invocation at that attempt with  *)
(* the job-not-found error, status 404, and HTTP 401 with the unauthorized *)
(* error, status 401: no sleep and no further request.                     *)
(***************************************************************************)
C6_404And401AreTerminal ==
    /\ Acted(404) =>
         /\ EndedAtThisAttempt
         /\ ErrorResponse(404, "Invalid job_id or results not ready")
    /\ Acted(401) =>
         /\ EndedAtThisAttempt
         /\ ErrorResponse(401, "Unauthorized - Check your API Key")

C6_Witness ==
    /\ Acted(401)
    /\ pc = "done"
    /\ status = 401
    /\ nreq = 2
    /\ nsleep = 1

(***************************************************************************)
(* Vocabulary of the aggregation properties.                               *)
(***************************************************************************)
\* the frame is an object whose emotions collection is present and
\* non-empty
ValidFrame(f) == f.isobj /\ f.haskey /\ f.emotions # <<>>

NumValidFrames(fs) == Cardinality({j \in 1..Len(fs) : ValidFrame(fs[j])})

\* every frame of the list is an object
AllObjects(fs) == \A j \in 1..Len(fs) : fs[j].isobj

\* the handler returned 200 with the metrics
Success == pc = "done" /\ status = 200

Occurrences(tops, l) == Cardinality({j \in 1..Len(tops) : tops[j] = l})

FirstSeen(tops, l) == CHOOSE j \in 1..Len(tops) :
    tops[j] = l /\ \A h \in 1..(j - 1) : tops[h] # l

\* the label most often dominant, the one seen first among the most
\* frequent; Neutral when there is none
MostFrequentLabel(tops) ==
    IF tops = <<>> THEN "Neutral"
    ELSE LET labels == {tops[j] : j \in 1..Len(tops)}
         IN  CHOOSE l \in labels :
                 \A m \in labels :
                     \/ Occurrences(tops, m) < Occurrences(tops, l)
                     \/ /\ Occurrences(tops, m) = Occurrences(tops, l)
                        /\ FirstSeen(tops, l) <= FirstSeen(tops, m)

(***************************************************************************)
(* C7: the frame_count that divides confidence_sum and nervousness_sum is  *)
(* the number of input frames whose emotions collection is non-empty.      *)
(***************************************************************************)
C7_FrameCountIsValidFrames ==
    Success => frame_count = NumValidFrames(predictions)

(***************************************************************************)
(* C8: a frame list with no frame of non-empty emotions ends in an error   *)
(* response and never in a 200 response with metrics.                      *)
(***************************************************************************)
C8_NoValidFramesIsAnError ==
    (/\ pc = "done"
     /\ results.shape = "frames"
     /\ AllObjects(results.frames)
     /\ NumValidFrames(results.frames) = 0)
        => /\ status # 200
           /\ error # ""
           /\ result = NoResult

(***************************************************************************)
(* C9: every invocation ends in the 200 response or in an error response   *)
(* {error: message} with a status of 400, 401, 404 or 500; no exception    *)
(* escapes the handler.                                                    *)
(***************************************************************************)
C9_NoUnhandledException ==
    pc = "done"
        => /\ exc = ""
           /\ status \in {200, 400, 401, 404, 500}
           /\ status # 200 => (error # "" /\ result = NoResult)

(***************************************************************************)
(* C10, as stated: on success the top_emotion field is exactly the label   *)
(* most often dominant, the first seen among the most frequent, and        *)
(* Neutral when no label was dominant.                                     *)
(***************************************************************************)
C10_TopEmotionIsTheLabel ==
    Success => result.top_emotion = MostFrequentLabel(top_emotions)

(***************************************************************************)
(* C10, amended: on success the top_emotion field is that label followed   *)
(* by its emotion level in parentheses, the level being Excellent, Good or *)
(* Average as the label's count over the number of frames is at least 0.7, *)
(* at least 0.4, or less; dominant labels [calm, nervous] over two frames  *)
(* give "calm (Good)", and no dominant label gives "Neutral (Average)".    *)
(***************************************************************************)
C10_TopEmotionIsLabelAndLevel ==
    Success =>
        LET label == MostFrequentLabel(top_emotions)
            count == Occurrences(top_emotions, label)
            frames == Len(predictions)
            level == IF 10 * count >= 7 * frames THEN "Excellent"
                     ELSE IF 10 * count >= 4 * frames THEN "Good"
                     ELSE "Average"
        IN  /\ result.top_emotion = label \o " (" \o level \o ")"
            /\ (top_emotions = <<"calm", "nervous">> /\ frames = 2)
                   => result.top_emotion = "calm (Good)"
            /\ top_emotions = <<>> => result.top_emotion = "Neutral (Average)"

C10_Witness ==
    /\ Success
    /\ top_emotions = <<"nervous", "calm">>
    /\ result.top_emotion = "nervous (Good)"

(***************************************************************************)
(* Exact arithmetic of the properties, on integers: the mean of a frame's  *)
(* matching scores in units of 1/600 (a frame has one, two or three        *)
(* matching scores), and their sum over a frame list.                      *)
(***************************************************************************)
RECURSIVE PlainSum(_)
PlainSum(es) == IF es = <<>> THEN 0 ELSE Head(es).score + PlainSum(Tail(es))

ExactMean(f, group) ==
    LET matching == SelectSeq(f.emotions,
                              LAMBDA e : Lower(e.name) \in group)
    IN  IF matching = <<>> THEN 0
        ELSE (PlainSum(matching) * 6) \div Len(matching)

RECURSIVE ExactSum(_, _)
ExactSum(fs, group) ==
    IF fs = <<>> THEN 0
    ELSE (IF ValidFrame(Head(fs)) THEN ExactMean(Head(fs), group) ELSE 0)
             + ExactSum(Tail(fs), group)

\* score, in hundredths, is the sum, in units of 1/600, divided by the
\* number of frames and rounded to two decimals, a tie rounded either way
IsRounded(score, sum, frames) ==
    LET d == sum - score * 6 * frames
    IN  2 * d <= 6 * frames /\ 2 * d >= 0 - 6 * frames

(***************************************************************************)
(* C11: with at least one valid frame, confidence_score and                *)
(* nervousness_score are the sum over the valid frames of the mean of the  *)
(* frame's scores in the group, divided by the number of valid frames and  *)
(* rounded to two decimals; [calm 0.8], [nervous 0.9] give 0.4 and 0.45.   *)
(***************************************************************************)
C11_ScoresAreMeansOverValidFrames ==
    (Success /\ NumValidFrames(predictions) >= 1)
        => LET valid == NumValidFrames(predictions)
           IN  /\ IsRounded(result.confidence_score,
                            ExactSum(predictions, confidence_emotions), valid)
               /\ IsRounded(result.nervousness_score,
                            ExactSum(predictions, nervousness_emotions), valid)

(***************************************************************************)
(* C12: engagement_score is the number of adjacent positions of the        *)
(* dominant-label sequence whose labels differ, divided by the length of   *)
(* the sequence minus one and rounded to two decimals, when the sequence   *)
(* has at least two entries, and 0 otherwise; [X, X, Y, X] gives 0.67 and  *)
(* a single frame gives 0.                                                 *)
(***************************************************************************)
RECURSIVE AdjacentChanges(_)
AdjacentChanges(tops) ==
    IF Len(tops) <= 1 THEN 0
    ELSE (IF tops[1] # tops[2] THEN 1 ELSE 0) + AdjacentChanges(Tail(tops))

C12_EngagementIsSwitchRate ==
    Success =>
        LET n == Len(top_emotions)
            d == 100 * AdjacentChanges(top_emotions)
                     - result.engagement_score * (n - 1)
        IN  /\ n >= 2 => (2 * d <= n - 1 /\ 2 * d >= 1 - n)
            /\ n <= 1 => result.engagement_score = 0
            /\ (n = 4 /\ top_emotions[1] = top_emotions[2]
                      /\ top_emotions[3] # top_emotions[1]
                      /\ top_emotions[4] = top_emotions[1])
                   => result.engagement_score = 67
            /\ Len(predictions) = 1 => result.engagement_score = 0

C12_Witness ==
    /\ Success
    /\ top_emotions = <<"calm", "calm", "nervous", "calm">>
    /\ result.engagement_score = 67
    /\ result.engagement_level = "Moderate"

(***************************************************************************)
(* C13: for every frame with a non-empty emotions list the dominant label  *)
(* recorded for it is the label with the maximum score, and among several  *)
(* labels with the maximum score the one that comes first in the frame's   *)
(* emotions list; a frame [A 0.5, B 0.5] yields A.                         *)
(***************************************************************************)
\* scan from the left, replacing the candidate only by a strictly larger score
RECURSIVE FirstMax(_)
FirstMax(es) ==
    IF Len(es) = 1 THEN es[1]
    ELSE LET best == FirstMax(SubSeq(es, 1, Len(es) - 1))
         IN  IF es[Len(es)].score > best.score THEN es[Len(es)] ELSE best

RECURSIVE DominantLabels(_)
DominantLabels(fs) ==
    IF fs = <<>> THEN <<>>
    ELSE LET rest == DominantLabels(SubSeq(fs, 1, Len(fs) - 1))
             f == fs[Len(fs)]
         IN  IF ValidFrame(f) THEN Append(rest, FirstMax(f.emotions).name)
             ELSE rest

TiedFrame == Frame(<<Emo("joy", 50), Emo("Calm", 50)>>)

C13_DominantLabelIsFirstMaximum ==
    (pc = "frames" \/ Success)
        => /\ top_emotions = DominantLabels(SubSeq(predictions, 1, k))
           /\ (k >= 1 /\ predictions[k] = TiedFrame)
                  => top_emotions[Len(top_emotions)] = "joy"

C13_Witness ==
    /\ Success
    /\ k = 2
    /\ Len(top_emotions) = 2
    /\ predictions[2] = TiedFrame
    /\ top_emotions[2] = "joy"
    /\ top_emotions[1] # "joy"

(***************************************************************************)
(* C14: in a success response each of confidence_level, nervousness_level  *)
(* and engagement_level is the level of its own score: "High" from 0.7     *)
(* up, "Moderate" from 0.4 up to but excluding 0.7, "Low" below 0.4; so    *)
(* 0.7 is High, 0.69 Moderate, 0.4 Moderate and 0.39 Low.                  *)
(***************************************************************************)
LevelOf(hundredths) ==
    CASE hundredths < 40 -> "Low"
      [] hundredths >= 40 /\ hundredths < 70 -> "Moderate"
      [] hundredths >= 70 -> "High"

C14_LevelsFollowOwnScore ==
    /\ Success =>
           /\ result.confidence_level = LevelOf(result.confidence_score)
           /\ result.nervousness_level = LevelOf(result.nervousness_score)
           /\ result.engagement_level = LevelOf(result.engagement_score)
    /\ \A s \in 0..100 : get_level(s) = LevelOf(s)
    /\ get_level(70) = "High" /\ get_level(69) = "Moderate"
    /\ get_level(40) = "Moderate" /\ get_level(39) = "Low"

C14_Witness ==
    /\ Success
    /\ result.confidence_score = 70 /\ result.confidence_level = "High"
    /\ result.nervousness_score = 30 /\ result.nervousness_level = "Low"
    /\ result.engagement_score = 0 /\ result.engagement_level = "Low"

(***************************************************************************)
(* C15: permuting the frames of the input does not change                  *)
(* confidence_score, nervousness_score, frame_count or the per-label       *)
(* dominant counts.                                                        *)
(***************************************************************************)
IndexPermutations(n) ==
    {p \in [1..n -> 1..n] : \A a, b \in 1..n : p[a] = p[b] => a = b}

Permuted(fs, p) == [j \in 1..Len(fs) |-> fs[p[j]]]

SameCounts(d, e) ==
    \A l \in {d[j].name : j \in 1..Len(d)} \cup {e[j].name : j \in 1..Len(e)} :
        DictGet(d, l) = DictGet(e, l)

C15_PermutationInvariant ==
    Success =>
        \A p \in IndexPermutations(Len(predictions)) :
            LET fs == Permuted(predictions, p)
            IN  /\ ScoreOf(fs, confidence_emotions) = result.confidence_score
                /\ ScoreOf(fs, nervousness_emotions) = result.nervousness_score
                /\ InitialFrameCount(fs) = frame_count
                /\ SameCounts(LoopCounts(fs), emotion_scores)

(***************************************************************************)
(* C17: every invocation with a non-empty job_id terminates, whatever the  *)
(* provider answers, after at least 1 and at most 18 provider requests and *)
(* at most one sleep per request; an invocation with a missing or empty    *)
(* job_id returns the 400 error without any provider request.              *)
(***************************************************************************)
Terminated == pc = "done"

RequestBudget ==
    /\ nreq <= 18
    /\ nsleep <= nreq
    /\ (Terminated /\ ~JobIdFalsy(job_id)) => nreq >= 1
    /\ JobIdFalsy(job_id) =>
          /\ nreq = 0 /\ nsleep = 0
          /\ pc \in {"entry", "done"}
          /\ Terminated => ErrorResponse(400, "Job ID is required")

C17_TerminatesWithinBudget == []RequestBudget /\ <>Terminated

C17_Witness ==
    /\ Terminated
    /\ ~JobIdFalsy(job_id)
    /\ nreq = 18
    /\ nsleep = 18
    /\ response.kind = "http" /\ response.code = 429

(***************************************************************************)
(* C18: the aggregation code runs, and a 200 response with the metrics is  *)
(* returned, only if the last provider request of the invocation received  *)
(* HTTP 200 with a complete result envelope: it is not reached after a     *)
(* terminal failure or after the retries are exhausted, and the payload it *)
(* aggregates is the one of that last request, never an earlier one.       *)
(***************************************************************************)
\* control is past line 87: in the aggregation, or done with an outcome that
\* only the aggregation produces
AggregationReached ==
    \/ pc \in {"extract", "frames"}
    \/ /\ pc = "done"
       /\ \/ status = 200
          \/ error \in {"Invalid data format from Hume API",
                        "No predictions found in Hume API results"}
          \/ exc \in {"AttributeError", "KeyError", "ZeroDivisionError"}

LastRequestWasComplete ==
    /\ response.kind = "http"
    /\ response.code = 200
    /\ response.payload.shape \in CompleteShapes
    /\ nreq = i + 1
    /\ nsleep = i
    /\ i < 18

C18_AggregatesOnlyLastCompletePayload ==
    /\ AggregationReached =>
          /\ LastRequestWasComplete
          /\ results = response.payload
          /\ (pc = "frames" \/ Success) => predictions = response.payload.frames
    /\ (pc = "done" /\ ~AggregationReached) =>
          /\ result = NoResult
          /\ predictions = <<>>
          /\ k = 0

C18_Witness ==
    /\ Success
    /\ nreq = 3
    /\ nsleep = 2
    /\ predictions = response.payload.frames
    /\ Len(predictions) = 2

(***************************************************************************)
(* C19: a provider response whose status is none of 200, 401, 404 and is   *)
(* not 5xx (202, 403, 429) is treated as not ready on every attempt: a     *)
(* sleep follows it and, if attempts remain, another request; a sequence   *)
(* of such responses only ends in the retries-exhausted error, status 500. *)
(***************************************************************************)
OtherStatusCodes == {c \in StatusCodes : c \notin {200, 401, 404} \cup (500..599)}

C19_OtherStatusIsNotReady ==
    \A code \in OtherStatusCodes :
        Acted(code) =>
            /\ TreatedAsNotReady
            /\ pc = "sleep" => (i = nreq - 1 /\ i < 18)
            /\ pc = "poll" => i = nreq
            /\ pc = "after_loop" => (i = 18 /\ nreq = 18 /\ ResultsFalsy(results))
            /\ (pc = "done" /\ ~terminal_seen) =>
                   (nsleep = 18 /\ status = 500 /\ result = NoResult)

C19_Witness ==
    /\ Acted(403)
    /\ ~terminal_seen
    /\ ErrorResponse(500, "Failed to retrieve data from Hume AI")
    /\ nreq = 18
    /\ nsleep = 18

(***************************************************************************)
(* C20: in every execution that reaches the score computation frame_count  *)
(* is at least 1, so neither the divisions by frame_count nor the division *)
(* by len(top_emotions) - 1 divides by zero, also when every frame has     *)
(* empty emotions.                                                         *)
(***************************************************************************)
C20_NoDivisionByZero ==
    /\ exc # "ZeroDivisionError"
    /\ (pc = "frames" \/ Success) =>
          /\ frame_count >= 1
          /\ predictions # <<>>
    /\ (Success /\ Len(top_emotions) <= 1) => result.engagement_score = 0

C20_Witness ==
    /\ Success
    /\ Len(predictions) = 2
    /\ \A j \in 1..Len(predictions) : GetEmotions(predictions[j]) = <<>>
    /\ top_emotions = <<>>
    /\ frame_count = 2
    /\ result.confidence_score = 0
    /\ result.engagement_score = 0

====
